---- MODULE Spec2Model ----
(***************************************************************************)
(* Startup data pipeline: the /load-data ingestion endpoint of main.py and *)
(* the name registry / record generator / batch orchestrator of            *)
(* generate_data.py.                                                       *)
(*                                                                         *)
(*   SpecLoad   the ingestion endpoint over a relational store             *)
(*   SpecNames  the name registry: registering names and checking them     *)
(*   SpecGen    runs of the generation script: resume, retry loop,         *)
(*              checkpointing, final output                                *)
(***************************************************************************)
EXTENDS Integers, Sequences, FiniteSets, TLC

(***************************************************************************)
(* Bounds of the model.                                                    *)
(***************************************************************************)
\* Longest company list of the ingestion file.
MaxFileLen == 3
\* Number of POST /load-data requests in one behaviour.
MaxLoads == 2
\* Number of products nested in every company entry of the ingestion file.
ProductsPerCompany == 3
\* Number of company names registered in one behaviour of SpecNames.
MaxRegistered == 2
\* Number of times the generation script is started in one behaviour.
MaxRuns == 2
\* TOTAL_COMPANIES, the target count of a generation run (10 in
\* generate_data.py:35), scaled down.
TOTAL_COMPANIES == 3
\* the slot that fails on every attempt in SpecGenFailingSlot
FailingSlot == 1
\* requests in a behaviour of SpecApi
MaxRequests == 4
\* rows of a table, largest page number and largest per_page in SpecPage
MaxRows == 25
MaxPage == 4
MaxPerPage == 10
\* range(5) of generate_data.py:142
Attempts == 5
\* the last value of `attempt`, generate_data.py:176, 182 and 194
LastAttempt == 4

VARIABLES
    \* ---- main.py: POST /load-data --------------------------------------
    file,            \* startup_data.json as the endpoint finds it
    autoflush,       \* the Session's autoflush setting (database.get_db)
    store,           \* committed rows: [companies, products]
    session,         \* the request Session's open transaction
    lpc,             \* position of the handler: "idle" | "loop"
    k,               \* 1-based position of the for loop in companies_data
    loaded_count,    \* main.py:73
    skipped_count,   \* main.py:74
    errors,          \* main.py:75, the company names of the error entries
    response,        \* what the last finished request answered
    pre,             \* the store when the running/last request began
    trace,           \* per loop iteration: what the handler did with the entry
    prev,            \* response and store when the running/last /load-data
                     \* request began
    outcome,         \* the path the running/last request took
    raised,          \* Company ids whose Product construction or INSERT raised
    nextId,          \* source of fresh uuid4 primary keys
    calls            \* number of requests begun

loadVars == <<file, autoflush, store, session, lpc, k, loaded_count,
              skipped_count, errors, response, pre, trace, prev, outcome,
              raised, nextId, calls>>

VARIABLES
    \* ---- generate_data.py: module state --------------------------------
    used_company_names,   \* generate_data.py:39
    used_product_names,   \* generate_data.py:40
    \* ---- SpecNames: a check of one name against the registry -----------
    registered,      \* the names registered so far, as they were passed in
    checked,         \* whether a check has been made since the last register
    query,           \* the name last checked
    verdict,         \* what is_duplicate_company answered for it
    registered_products,  \* the product names registered so far, as passed in
    product_checked, \* whether a product name has been checked since
    product_query,   \* the product name last checked
    product_verdict  \* what is_duplicate_product answered for it

registryVars == <<used_company_names, used_product_names>>

namesVars == <<registered, checked, query, verdict, registered_products,
               product_checked, product_query, product_verdict>>

VARIABLES
    \* ---- generate_data.py: generate_all_data / generate_company_data ---
    gpc,             \* "stopped" | "prompt" | "loop" | "attempt"
    progress_file,   \* PROGRESS_FILE (generation_progress.json)
    output_file,     \* OUTPUT_FILE (startup_data.json) as the script writes it
    all_companies,   \* generate_data.py:219
    i,               \* loop variable of generate_data.py:221
    attempt,         \* loop variable of generate_data.py:142
    num_products,    \* generate_data.py:95
    last_return,     \* the last record generate_company_data returned
    saved,           \* whether this run has called save_progress
    runs,            \* number of times the script was started
    run              \* the running/last run: whether it resumed from the
                     \* checkpoint, the current_index and the number of
                     \* companies of that checkpoint, whether the checkpoint
                     \* was left by a run that ended short of a failed slot,
                     \* whether every API call so far returned a record, for
                     \* how many slots generate_company_data was called,
                     \* whether the user declined to resume, and how the
                     \* run ended

genVars == <<gpc, progress_file, output_file, all_companies, i, attempt,
             num_products, last_return, saved, runs, run>>

VARIABLES
    \* ---- main.py: the CRUD endpoints ------------------------------------
    request,         \* the last CRUD request: its handler and the id it named
    requests         \* number of CRUD requests begun

crudVars == <<request, requests>>

VARIABLES
    \* ---- main.py: GET /companies and GET /products ----------------------
    companies_table, \* the Company rows in the order the query returns them
    products_table,  \* the Product rows in the order the query returns them
    listing          \* what the last paginated GET answered

pageVars == <<companies_table, products_table, listing>>

vars == <<loadVars, registryVars, namesVars, genVars, crudVars, pageVars>>

(***************************************************************************)
(* Helpers.                                                                *)
(***************************************************************************)
SeqsUpTo(S, n) == UNION {[1..m -> S] : m \in 0..n}

Range(s) == {s[j] : j \in 1..Len(s)}

(***************************************************************************)
(* The ingestion file.  A company entry of the file is what the loop body  *)
(* can tell apart: its name and where (if anywhere) persisting it raises:  *)
(*   "none"          every statement of the loop body succeeds             *)
(*   "company"       the Company constructor or db.flush() raises          *)
(*                   (unknown key, NULL in a NOT NULL column), main.py:93-95*)
(*   "product_ctor"  the Product constructor raises for its last product   *)
(*                   (unknown key), main.py:101, after the Company flush   *)
(*   "product_flush" the last product is constructed and db.add()ed but    *)
(*                   its INSERT raises (NULL in a NOT NULL column) when    *)
(*                   the Session next flushes                              *)
(***************************************************************************)
CompanyNames == {"Acme", "Bolt"}

Faults == {"none", "company", "product_ctor", "product_flush"}

Entry == [name : CompanyNames, fault : Faults]

Files ==
    {[state |-> "missing", companies |-> <<>>],
     [state |-> "invalid", companies |-> <<>>]}
    \cup {[state |-> "ok", companies |-> s] : s \in SeqsUpTo(Entry, MaxFileLen)}

(***************************************************************************)
(* The relational store and the SQLAlchemy Session.                        *)
(***************************************************************************)
EmptyStore == [companies |-> {}, products |-> {}]

\* companies/products: rows INSERTed by a flush inside the open transaction;
\* pending: Product objects db.add()ed and not yet flushed.
EmptySession == [companies |-> {}, products |-> {}, pending |-> {}]

CompanyRow(id, name) == [id |-> id, name |-> name]

\* Product.id is a uuid4 of its own; <<company id, position>> stands for it.
ProductRow(cid, n) == [id |-> <<cid, n>>, company_id |-> cid]

PendingProduct(cid, n, bad) == [company_id |-> cid, n |-> n, bad |-> bad]

\* Session.flush(): INSERT every pending object; one failing INSERT raises.
FlushRaises(s) == \E p \in s.pending : p.bad

Flush(s) ==
    [companies |-> s.companies,
     products  |-> s.products \cup {ProductRow(p.company_id, p.n) : p \in s.pending},
     pending   |-> {}]

\* db.rollback() left out.
RollbackOmitted(s) == s

\* Session.rollback(): the whole open transaction is discarded, flushed rows
\* and pending objects alike (the handler opens no savepoint).
Rollback(s) == EmptySession

\* Session.commit() after a successful flush.
Commit(st, s) ==
    [companies |-> st.companies \cup s.companies,
     products  |-> st.products \cup s.products]

\* The query with the mistake of looking at this transaction's rows only.
ExistingCompanySessionOnly(st, s, name) ==
    \E c \in s.companies : c.name = name

\* db.query(Company).filter(Company.name == name).first(): committed rows and
\* the rows this transaction has flushed.
ExistingCompany(st, s, name) ==
    \E c \in st.companies \cup s.companies : c.name = name

(***************************************************************************)
(* Responses.                                                              *)
(***************************************************************************)
NoResponse == [status |-> 0, body |-> "none", loaded |-> 0, skipped |-> 0,
               errors |-> <<>>, errors_none |-> TRUE]

ErrorResponse(code, detail) ==
    [status |-> code, body |-> detail, loaded |-> 0, skipped |-> 0,
     errors |-> <<>>, errors_none |-> TRUE]

\* main.py:127-132; "errors": errors if errors else None
Report(l, s, e) ==
    [status |-> 201, body |-> "report", loaded |-> l, skipped |-> s,
     errors |-> e, errors_none |-> (e = <<>>)]

\* main.py:67-71 raises HTTPException(400) inside the outer try; HTTPException
\* is an Exception, so main.py:139-144 catches it and raises the 500.
EmptyListResponse ==
    ErrorResponse(500, "Error loading data: 400: No companies found in startup_data.json")

\* main.py:120-125 raises the 500, which main.py:139-144 catches and replaces
\* by its own 500.
CommitFailedResponse ==
    ErrorResponse(500, "Error loading data: 500: Error committing data")

(***************************************************************************)
(* Names.  A name is a string, modelled as the sequence of its pieces: a   *)
(* word (a maximal run of non-blank characters) or one blank.  Two words   *)
(* are never adjacent.  str.lower, str.strip and str.split act on it as    *)
(* they act on the string.                                                 *)
(***************************************************************************)
Space == " "

\* str.lower() of one word, for the words the name universes are built of.
LowerWord(w) ==
    CASE w = "DataCorp" -> "datacorp"
      [] w = "Inc" -> "inc"
      [] w = "INC" -> "inc"
      [] w = "Incorporated" -> "incorporated"
      [] w = "Alpha" -> "alpha"
      [] w = "Beta" -> "beta"
      [] w = "Gamma" -> "gamma"
      [] w = "Delta" -> "delta"
      [] w = "Nova" -> "nova"
      [] w = "NOVA" -> "nova"
      [] w = "Acme" -> "acme"
      [] w = "ACME" -> "acme"
      [] w = "Bolt" -> "bolt"
      [] w = "Core" -> "core"
      [] w = "Pay" -> "pay"
      [] w = "PAY" -> "pay"
      [] w = "Ledger" -> "ledger"
      [] w = "Vault" -> "vault"
      [] w = "Coach" -> "coach"
      [] w = "Quiz" -> "quiz"
      [] w = "Tutor" -> "tutor"
      [] w = "Forum" -> "forum"
      [] w = "Cart" -> "cart"
      [] w = "Ship" -> "ship"
      [] w = "Stock" -> "stock"
      [] w = "Mint" -> "mint"
      [] w = "Scan" -> "scan"
      [] w = "Desk" -> "desk"
      [] w = "DESK" -> "desk"
      [] w = "Flow" -> "flow"
      [] w = "Sync" -> "sync"
      [] w = "Bill" -> "bill"
      [] w = "Plan" -> "plan"
      [] OTHER -> w

\* str.lower()
lower(name) == [j \in 1..Len(name) |-> LowerWord(name[j])]

RECURSIVE lstrip(_)
lstrip(name) ==
    IF name # <<>> /\ Head(name) = Space THEN lstrip(Tail(name)) ELSE name

RECURSIVE rstrip(_)
rstrip(name) ==
    IF name # <<>> /\ name[Len(name)] = Space
      THEN rstrip(SubSeq(name, 1, Len(name) - 1))
      ELSE name

\* str.strip()
strip(name) == rstrip(lstrip(name))

\* str.split(): the words, in order
split(name) == SelectSeq(name, LAMBDA c : c # Space)

\* The words joined by single blanks.
Join(words) ==
    [j \in 1..(2 * Len(words) - 1) |->
        IF j % 2 = 1 THEN words[(j + 1) \div 2] ELSE Space]

Max(a, b) == IF a >= b THEN a ELSE b

(***************************************************************************)
(* The name registry, generate_data.py:39-40 and 72-90.                    *)
(***************************************************************************)
\* generate_data.py:83-84 with the mistake of a strict comparison.
SimilarEnoughStrict(name_words, existing_words) ==
    10 * Cardinality(name_words \cap existing_words)
        > 7 * Max(Cardinality(name_words), Cardinality(existing_words))

\* generate_data.py:83-84 with the mistake of a threshold of one half.
SimilarEnoughHalf(name_words, existing_words) ==
    2 * Cardinality(name_words \cap existing_words)
        >= Max(Cardinality(name_words), Cardinality(existing_words))

\* generate_data.py:83-84: overlap = |a & b| / max(|a|, |b|); overlap >= 0.7
\* (7/10 and the literal 0.7 are the same double, so the comparison is exact)
SimilarEnough(name_words, existing_words) ==
    10 * Cardinality(name_words \cap existing_words)
        >= 7 * Max(Cardinality(name_words), Cardinality(existing_words))

\* generate_data.py:72-86
is_duplicate_company(company_name) ==
    LET name_lower == strip(lower(company_name))
        name_words == Range(split(name_lower))
    IN  \/ name_lower \in used_company_names
        \/ \E existing \in used_company_names :
             LET existing_words == Range(split(existing))
             IN  /\ name_words # {}
                 /\ existing_words # {}
                 /\ SimilarEnough(name_words, existing_words)

\* generate_data.py:88-90
is_duplicate_product_unstripped(product_name) ==
    lower(product_name) \in used_product_names

is_duplicate_product(product_name) ==
    strip(lower(product_name)) \in used_product_names

\* generate_data.py:187
register_company(name) == used_company_names \cup {strip(lower(name))}

\* generate_data.py:188-189
register_products(products) ==
    used_product_names \cup {strip(lower(products[j])) : j \in 1..Len(products)}

(***************************************************************************)
(* Quiescent values of each part, for the specifications that leave it     *)
(* alone.                                                                  *)
(***************************************************************************)
RegistryEmpty == used_company_names = {} /\ used_product_names = {}

NamesQuiet ==
    /\ registered = {}
    /\ checked = FALSE
    /\ query = <<>>
    /\ verdict = FALSE
    /\ registered_products = {}
    /\ product_checked = FALSE
    /\ product_query = <<>>
    /\ product_verdict = FALSE

NoProgressFile ==
    [state |-> "missing", companies |-> <<>>, current_index |-> 0,
     used_company_names |-> {}, used_product_names |-> {}]

NoOutputFile == [exists |-> FALSE, companies |-> <<>>]

NoReturn == [returned |-> FALSE, name |-> <<>>, products |-> <<>>, duplicates |-> {}]

NoRun ==
    [resumed |-> FALSE, start_index |-> 0, kept |-> 0, after_failure |-> FALSE,
     clean |-> TRUE, slots |-> 0, declined |-> FALSE, ended |-> "none"]

GenQuiet ==
    /\ gpc = "stopped"
    /\ progress_file = NoProgressFile
    /\ output_file = NoOutputFile
    /\ all_companies = <<>>
    /\ i = 0
    /\ attempt = 0
    /\ num_products = 3
    /\ last_return = NoReturn
    /\ saved = FALSE
    /\ runs = 0
    /\ run = NoRun

\* An id no row has (uuid4 keys are modelled by the integers from 1).
NoId == 0

NoRequest == [op |-> "none", id |-> NoId]

CrudQuiet ==
    /\ request = NoRequest
    /\ requests = 0

NoListing ==
    [endpoint |-> "none", filters |-> <<>>, total |-> 0, page |-> 0,
     per_page |-> 0, total_pages |-> 0, items |-> <<>>]

PageQuiet ==
    /\ companies_table = <<>>
    /\ products_table = <<>>
    /\ listing = NoListing

LoadQuiet ==
    /\ file = [state |-> "missing", companies |-> <<>>]
    /\ autoflush = FALSE
    /\ store = EmptyStore
    /\ session = EmptySession
    /\ lpc = "idle"
    /\ k = 0
    /\ loaded_count = 0
    /\ skipped_count = 0
    /\ errors = <<>>
    /\ response = NoResponse
    /\ pre = EmptyStore
    /\ trace = <<>>
    /\ prev = [response |-> NoResponse, store |-> EmptyStore]
    /\ outcome = "none"
    /\ raised = {}
    /\ nextId = 1
    /\ calls = 0

(***************************************************************************)
(* POST /load-data, main.py:46-144.                                        *)
(***************************************************************************)
InitLoad ==
    /\ file \in Files
    /\ autoflush \in BOOLEAN
    /\ store = EmptyStore
    /\ session = EmptySession
    /\ lpc = "idle"
    /\ k = 0
    /\ loaded_count = 0
    /\ skipped_count = 0
    /\ errors = <<>>
    /\ response = NoResponse
    /\ pre = EmptyStore
    /\ trace = <<>>
    /\ prev = [response |-> NoResponse, store |-> EmptyStore]
    /\ outcome = "none"
    /\ raised = {}
    /\ nextId = 1
    /\ calls = 0
    /\ RegistryEmpty
    /\ NamesQuiet
    /\ GenQuiet
    /\ CrudQuiet
    /\ PageQuiet

\* main.py:53-71: where the checks of the file send the request.
FileCheck(f) ==
    IF f.state = "missing" THEN "missing"
    ELSE IF f.state = "invalid" THEN "invalid"
    ELSE IF f.companies = <<>> THEN "empty"
    ELSE "loop"

\* The answer of a request the file checks end.
FileCheckResponse(o) ==
    IF o = "missing" THEN ErrorResponse(404, "startup_data.json file not found")
    ELSE IF o = "invalid" THEN ErrorResponse(400, "Invalid JSON format in startup_data.json")
    ELSE IF o = "empty" THEN EmptyListResponse
    ELSE NoResponse

\* main.py:53-75: the request begins.
LoadBegin ==
    /\ lpc = "idle"
    /\ calls < MaxLoads
    /\ calls' = calls + 1
    /\ prev' = [response |-> response, store |-> store]
    /\ pre' = store
    /\ trace' = <<>>
    /\ raised' = {}
    /\ loaded_count' = 0
    /\ skipped_count' = 0
    /\ errors' = <<>>
    /\ session' = EmptySession
    /\ k' = 1
    /\ outcome' = FileCheck(file)
    /\ response' = FileCheckResponse(FileCheck(file))
    /\ lpc' = IF FileCheck(file) = "loop" THEN "loop" ELSE "idle"
    /\ UNCHANGED <<file, autoflush, store, nextId>>
    /\ UNCHANGED <<registryVars, namesVars, genVars, crudVars, pageVars>>

\* The Company ids whose pending Product the next flush fails to INSERT.
BadPending(s) == {p.company_id : p \in {q \in s.pending : q.bad}}

\* What one iteration of main.py:77-115 does with entry e in Session s.
\* result: "skipped" | "loaded" | "error"; id: the Company primary key the
\* iteration flushed (0 when it flushed none); raised: the Company ids whose
\* Product raised in this iteration.
LoadOne(st, s, e, id, af) ==
    LET s1 == IF af THEN Flush(s) ELSE s      \* main.py:80, the query autoflushes
    IN  IF af /\ FlushRaises(s)
          THEN [result |-> "error", id |-> 0, raised |-> BadPending(s),
                session |-> Rollback(s)]
        ELSE IF ExistingCompany(st, s1, e.name)
          THEN [result |-> "skipped", id |-> 0, raised |-> {}, session |-> s1]
        ELSE IF e.fault = "company" \/ FlushRaises(s1)   \* main.py:93-95
          THEN [result |-> "error", id |-> 0, raised |-> BadPending(s1),
                session |-> Rollback(s1)]
        ELSE LET s2 == [Flush(s1) EXCEPT !.companies = @ \cup {CompanyRow(id, e.name)}]
             IN  IF e.fault = "product_ctor"             \* main.py:101
                   THEN [result |-> "error", id |-> id, raised |-> {id},
                         session |-> Rollback(s2)]
                 ELSE [result |-> "loaded", id |-> id, raised |-> {},
                       session |-> [s2 EXCEPT !.pending =
                           {PendingProduct(id, n,
                                e.fault = "product_flush" /\ n = ProductsPerCompany)
                               : n \in 1..ProductsPerCompany}]]

LoadCompany ==
    /\ lpc = "loop"
    /\ k <= Len(file.companies)
    /\ LET e == file.companies[k]
           r == LoadOne(store, session, e, nextId, autoflush)
       IN  /\ session' = r.session
           /\ trace' = Append(trace, [name |-> e.name, fault |-> e.fault,
                                      result |-> r.result, id |-> r.id])
           /\ raised' = raised \cup r.raised
           /\ nextId' = IF r.id = 0 THEN nextId ELSE nextId + 1
           /\ loaded_count' = IF r.result = "loaded" THEN loaded_count + 1 ELSE loaded_count
           /\ skipped_count' = IF r.result = "skipped" THEN skipped_count + 1 ELSE skipped_count
           /\ errors' = IF r.result = "error" THEN Append(errors, e.name) ELSE errors
    /\ k' = k + 1
    /\ UNCHANGED <<file, autoflush, store, lpc, response, pre, prev, outcome, calls>>
    /\ UNCHANGED <<registryVars, namesVars, genVars, crudVars, pageVars>>

\* main.py:117-132: the single commit and the report.  dbFails: the store
\* refuses the commit for a reason of its own.
LoadCommit ==
    /\ lpc = "loop"
    /\ k > Len(file.companies)
    /\ \E dbFails \in BOOLEAN :
         IF dbFails \/ FlushRaises(session)
           THEN /\ session' = Rollback(session)
                /\ store' = store
                /\ raised' = raised \cup BadPending(session)
                /\ outcome' = "commit_failed"
                /\ response' = CommitFailedResponse
           ELSE /\ store' = Commit(store, Flush(session))
                /\ session' = EmptySession
                /\ raised' = raised
                /\ outcome' = "committed"
                /\ response' = Report(loaded_count, skipped_count, errors)
    /\ lpc' = "idle"
    /\ UNCHANGED <<file, autoflush, k, loaded_count, skipped_count, errors,
                   pre, trace, prev, nextId, calls>>
    /\ UNCHANGED <<registryVars, namesVars, genVars, crudVars, pageVars>>

NextLoad == LoadBegin \/ LoadCompany \/ LoadCommit

SpecLoad == InitLoad /\ [][NextLoad]_vars

(***************************************************************************)
(* Claims about POST /load-data (checked under SpecLoad).                  *)
(***************************************************************************)
\* The last request is finished and answered with the loaded/skipped report.
Reported == lpc = "idle" /\ outcome = "committed"

StoredIds == {c.id : c \in store.companies}

\* C1 (as stated): when the insertion of one company of the file raises, the
\* companies the same request counted in `loaded` are still persisted by the
\* final commit, and every company of the file is attempted.
C1_EarlierCompaniesSurvive ==
    (Reported /\ \E j \in 1..Len(trace) : trace[j].result = "error")
        => /\ Len(trace) = Len(file.companies)
           /\ \A j \in 1..Len(trace) :
                trace[j].result = "loaded" => trace[j].id \in StoredIds

\* C2 (as stated): the reported `loaded` count is the number of Company rows
\* the request added to the store.
C2_LoadedCountsAddedRows ==
    Reported => response.loaded = Cardinality(store.companies \ pre.companies)

\* The request before the last one was answered with a report too.
LoadedTwice == Reported /\ calls >= 2 /\ prev.response.status = 201

\* C3 (as stated): a second load of the same file reports loaded = 0 and
\* skipped = the number of companies of the file, and leaves the store as the
\* first load left it.
C3_SecondLoadIdempotent ==
    LoadedTwice
        => /\ response.loaded = 0
           /\ response.skipped = Len(file.companies)
           /\ store = prev.store

\* C3 (amended): the same, for a first load that reported no per-company
\* error.
C3_SecondLoadIdempotentAfterCleanLoad ==
    (LoadedTwice /\ prev.response.errors_none)
        => /\ response.loaded = 0
           /\ response.skipped = Len(file.companies)
           /\ response.errors_none
           /\ store = prev.store

C3_Witness ==
    /\ LoadedTwice
    /\ prev.response.errors_none
    /\ prev.response.loaded = 2
    /\ prev.response.skipped = 1
    /\ response.skipped = 3
    /\ Cardinality(store.companies) = 2

\* C4 (as stated): a missing file and an empty company list are both answered
\* with a 4xx error, the empty list with the 400, and the store is untouched.
C4_MissingOrEmptyIsClientError ==
    (lpc = "idle" /\ calls >= 1
        /\ (file.state = "missing" \/ (file.state = "ok" /\ file.companies = <<>>)))
        => /\ response.status \in 400..499
           /\ file.state = "ok" => response.status = 400
           /\ store = pre

\* C5 (as stated): a company whose Product insertion raised is named in
\* `errors`, is not counted in `loaded`, and has no Company row in the store.
C5_ProductFailureIsolated ==
    Reported
        => \A j \in 1..Len(trace) :
             trace[j].id \in raised
                => /\ trace[j].name \in Range(response.errors)
                   /\ trace[j].result # "loaded"
                   /\ trace[j].id \notin StoredIds

\* C6: when the final commit fails, nothing staged by the request remains (the
\* transaction is empty and the store is what it was before the request) and
\* the answer is an error, not a report.
C6_CommitFailureRollsBackAll ==
    (lpc = "idle" /\ outcome = "commit_failed")
        => /\ store = pre
           /\ session = EmptySession
           /\ response.status >= 500
           /\ response.body # "report"

C6_Witness ==
    /\ lpc = "idle"
    /\ outcome = "commit_failed"
    /\ loaded_count = 2
    /\ \E j \in 1..Len(trace) : trace[j].result = "loaded"

(***************************************************************************)
(* SpecNames: company names are registered the way generate_company_data   *)
(* registers them (a name that passed the duplicate check, normalised),    *)
(* and any name of the universe is checked against the registry.           *)
(***************************************************************************)
DataCorpInc == Join(<<"DataCorp", "Inc">>)

DataCorpIncorporated == Join(<<"DataCorp", "Incorporated">>)

\* Ten words each: TenA and TenB share 7 (overlap 0.7), TenA and TenC share 6.
TenA == Join(<<"w1", "w2", "w3", "w4", "w5", "w6", "w7", "w8", "w9", "w10">>)

TenB == Join(<<"w1", "w2", "w3", "w4", "w5", "w6", "w7", "w11", "w12", "w13">>)

TenC == Join(<<"w1", "w2", "w3", "w4", "w5", "w6", "w11", "w12", "w13", "w14">>)

NameUniverse ==
    {DataCorpInc,
     DataCorpIncorporated,
     <<Space, "datacorp", Space, "INC", Space>>,
     <<"DataCorp", Space, Space, "Inc">>,
     Join(<<"Alpha", "Beta", "Gamma">>),
     Join(<<"alpha", "beta", "gamma", "delta">>),
     Join(<<"Alpha", "Beta", "Delta">>),
     Join(<<"Gamma", "Alpha", "Beta">>),
     Join(<<"Delta", "Nova">>),
     <<"Nova">>,
     <<"NOVA", Space>>,
     Join(<<"Nova", "Nova">>),
     <<>>,
     <<Space>>,
     TenA, TenB, TenC}

InitNames ==
    /\ RegistryEmpty
    /\ NamesQuiet
    /\ LoadQuiet
    /\ GenQuiet
    /\ CrudQuiet
    /\ PageQuiet

\* generate_data.py:175-187: a name that is not judged a duplicate is
\* registered.
RegisterCompany ==
    /\ Cardinality(registered) < MaxRegistered
    /\ \E name \in NameUniverse :
         /\ ~is_duplicate_company(name)
         /\ used_company_names' = register_company(name)
         /\ registered' = registered \cup {name}
    /\ checked' = FALSE
    /\ query' = <<>>
    /\ verdict' = FALSE
    /\ product_checked' = FALSE
    /\ product_query' = <<>>
    /\ product_verdict' = FALSE
    /\ UNCHANGED <<used_product_names, registered_products, loadVars, genVars, crudVars, pageVars>>

\* generate_data.py:175: a candidate name is checked.
CheckCompany ==
    /\ \E name \in NameUniverse :
         /\ query' = name
         /\ verdict' = is_duplicate_company(name)
    /\ checked' = TRUE
    /\ product_checked' = FALSE
    /\ product_query' = <<>>
    /\ product_verdict' = FALSE
    /\ UNCHANGED <<registryVars, registered, registered_products, loadVars,
                   genVars, crudVars, pageVars>>

\* The product names the registry is exercised with: repeats of "Pay" and of
\* "Pay Ledger" in other case and with outer blanks, and names that differ
\* from them in more than that.
ProductUniverse ==
    {<<"Pay">>,
     <<Space, "PAY", Space>>,
     Join(<<"Pay", "Ledger">>),
     <<Space, "PAY", Space, "Ledger">>}

\* generate_data.py:180-189: a product name that is not judged a duplicate
\* is registered.
RegisterProduct ==
    /\ Cardinality(registered_products) < MaxRegistered
    /\ \E name \in ProductUniverse :
         /\ ~is_duplicate_product(name)
         /\ used_product_names' = register_products(<<name>>)
         /\ registered_products' = registered_products \cup {name}
    /\ checked' = FALSE
    /\ query' = <<>>
    /\ verdict' = FALSE
    /\ product_checked' = FALSE
    /\ product_query' = <<>>
    /\ product_verdict' = FALSE
    /\ UNCHANGED <<used_company_names, registered, loadVars, genVars, crudVars, pageVars>>

\* generate_data.py:181: a candidate product name is checked.
CheckProduct ==
    /\ \E name \in ProductUniverse :
         /\ product_query' = name
         /\ product_verdict' = is_duplicate_product(name)
    /\ product_checked' = TRUE
    /\ checked' = FALSE
    /\ query' = <<>>
    /\ verdict' = FALSE
    /\ UNCHANGED <<registryVars, registered, registered_products, loadVars,
                   genVars, crudVars, pageVars>>

NextNames == RegisterCompany \/ CheckCompany \/ RegisterProduct \/ CheckProduct

SpecNames == InitNames /\ [][NextNames]_vars

(***************************************************************************)
(* Claims about the name registry (checked under SpecNames).               *)
(***************************************************************************)
\* The tokens of a name as the claims define them: the whitespace-split
\* lowercase words.
Tokens(name) == Range(split(lower(name)))

\* |tokens(A) & tokens(B)| / max(|tokens(A)|, |tokens(B)|) >= 0.7, both
\* token sets non-empty.
OverlapAtLeast70(a, b) ==
    /\ Tokens(a) # {}
    /\ Tokens(b) # {}
    /\ 10 * Cardinality(Tokens(a) \cap Tokens(b))
         >= 7 * Max(Cardinality(Tokens(a)), Cardinality(Tokens(b)))

\* C9: once A is registered, is_duplicate_company(B) is true for every B
\* whose token overlap with A is at least 0.7.
C9_OverlapImpliesDuplicate ==
    checked => \A a \in registered : OverlapAtLeast70(a, query) => verdict

\* The boundary: 7 shared words of 10, blocked by the overlap and not by an
\* exact match.
C9_Witness ==
    /\ checked
    /\ verdict
    /\ strip(lower(query)) \notin used_company_names
    /\ \E a \in registered :
         /\ OverlapAtLeast70(a, query)
         /\ Cardinality(Tokens(a) \cap Tokens(query)) = 7
         /\ Cardinality(Tokens(a)) = 10

\* C10 (as stated): with "DataCorp Inc" registered,
\* is_duplicate_company("DataCorp Incorporated") is true.
C10_NearRepeatBlocked ==
    (checked /\ DataCorpInc \in registered /\ query = DataCorpIncorporated)
        => verdict

\* C10 (amended): with "DataCorp Inc" the only registered name,
\* is_duplicate_company("DataCorp Incorporated") is false (the names share one
\* token of two), while a repeat of "DataCorp Inc" that differs in case and
\* blanks only is blocked.
C10_NearRepeatNotBlocked ==
    (checked /\ registered = {DataCorpInc})
        => /\ query = DataCorpIncorporated => ~verdict
           /\ query = <<Space, "datacorp", Space, "INC", Space>> => verdict

C10_Witness ==
    /\ checked
    /\ registered = {DataCorpInc}
    /\ query = DataCorpIncorporated
    /\ ~verdict

\* Two names differ only in letter case and in leading or trailing
\* whitespace: without their outer blanks they have the same pieces, letter
\* for letter up to case.
SameUpToCaseAndOuterBlanks(x, y) ==
    /\ Len(strip(x)) = Len(strip(y))
    /\ \A j \in 1..Len(strip(x)) : LowerWord(strip(x)[j]) = LowerWord(strip(y)[j])

\* C11: for every registered name X, is_duplicate_company(Y) and
\* is_duplicate_product(Y), each against its own registry, answer true for
\* every Y that differs from X only in letter case and outer whitespace.
C11_ExactRepeatsRejected ==
    /\ checked =>
         \A x \in registered :
            SameUpToCaseAndOuterBlanks(x, query) => verdict
    /\ product_checked =>
         \A x \in registered_products :
            SameUpToCaseAndOuterBlanks(x, product_query) => product_verdict

\* A product name met again in capitals and with blanks around it, while a
\* company name is registered too.
C11_Witness ==
    /\ product_checked
    /\ product_verdict
    /\ registered # {}
    /\ \E x \in registered_products :
         /\ x # product_query
         /\ lower(x) # lower(product_query)
         /\ strip(x) # strip(product_query)
         /\ SameUpToCaseAndOuterBlanks(x, product_query)

(***************************************************************************)
(* SpecGen: the generation script, generate_data.py:92-260.  What the      *)
(* external API answers to one call is the input of an attempt.            *)
(***************************************************************************)
\* What the API may answer to one call.
Record(name, products) == [ok |-> TRUE, name |-> name, products |-> products]

\* A response that does not parse or lacks a required field.
Garbage == [ok |-> FALSE, name |-> <<>>, products |-> <<>>]

Payloads ==
    {Garbage,
     Record(<<"Acme">>, << <<"Pay">>, <<"Ledger">>, <<"Vault">> >>),
     Record(<<"Bolt">>, << <<"Coach">>, <<"Quiz">>, <<"Tutor">>, <<"Forum">> >>),
     Record(<<"Core">>, << <<"Cart">>, <<"Ship">>, <<"Stock">> >>),
     \* the company name repeats "Acme" up to case and blanks
     Record(<<Space, "ACME">>, << <<"Mint">>, <<"Scan">>, <<"Flow">> >>),
     \* the first product repeats "Pay" up to case and blanks
     Record(<<"Core">>, << <<"PAY", Space>>, <<"Mint">>, <<"Scan">> >>),
     \* the first two products repeat each other
     Record(<<"Bolt">>, << <<"Desk">>, <<"DESK">>, <<"Flow">>, <<"Sync">> >>),
     \* two products, never the count asked for
     Record(<<"Acme">>, << <<"Bill">>, <<"Plan">> >>)}

\* The product names of a record that is_duplicate_product judges duplicates.
DuplicateProducts(products) ==
    {products[j] : j \in {n \in 1..Len(products) : is_duplicate_product(products[n])}}

\* generate_data.py:180-184: the `continue` of line 183 continues the loop
\* over the products, so a duplicate product raises on the last attempt only.
ProductCheckRaises(products, att) ==
    /\ DuplicateProducts(products) # {}
    /\ ~(att < LastAttempt)

AttemptResultRetriesLast(payload, np, att) ==
    IF ~payload.ok \/ Len(payload.products) # np
      THEN IF att = LastAttempt THEN "raise" ELSE "retry"
    ELSE IF is_duplicate_company(payload.name)
      THEN "retry"
    ELSE IF ProductCheckRaises(payload.products, att)
      THEN "raise"
    ELSE "return"

AttemptResultAnyCount(payload, np, att) ==
    IF ~payload.ok
      THEN IF att = LastAttempt THEN "raise" ELSE "retry"
    ELSE IF is_duplicate_company(payload.name)
      THEN IF att < LastAttempt THEN "retry" ELSE "raise"
    ELSE IF ProductCheckRaises(payload.products, att)
      THEN "raise"
    ELSE "return"

\* generate_data.py:142-196: what one attempt does with the API's answer:
\* "return" the record, "retry" with a fresh call, or "raise" to the caller.
AttemptResult(payload, np, att) ==
    IF ~payload.ok \/ Len(payload.products) # np          \* lines 160-172
      THEN IF att = LastAttempt THEN "raise" ELSE "retry"   \* lines 193-196
    ELSE IF is_duplicate_company(payload.name)            \* lines 175-178
      THEN IF att < LastAttempt THEN "retry" ELSE "raise"
    ELSE IF ProductCheckRaises(payload.products, att)
      THEN "raise"
    ELSE "return"

save_progress_past_slot(companies, current_index, ucn, upn) ==
    [state |-> "ok", companies |-> companies,
     current_index |-> current_index + 1,
     used_company_names |-> ucn, used_product_names |-> upn]

\* generate_data.py:42-54
save_progress(companies, current_index, ucn, upn) ==
    [state |-> "ok", companies |-> companies, current_index |-> current_index,
     used_company_names |-> ucn, used_product_names |-> upn]

load_progress_from_zero(pf, ucn, upn) ==
    IF pf.state = "ok"
      THEN [companies |-> pf.companies, current_index |-> 0,
            used_company_names |-> ucn \cup pf.used_company_names,
            used_product_names |-> upn \cup pf.used_product_names]
      ELSE [companies |-> <<>>, current_index |-> 0,
            used_company_names |-> ucn, used_product_names |-> upn]

load_progress_without_names(pf, ucn, upn) ==
    IF pf.state = "ok"
      THEN [companies |-> pf.companies, current_index |-> pf.current_index,
            used_company_names |-> ucn, used_product_names |-> upn]
      ELSE [companies |-> <<>>, current_index |-> 0,
            used_company_names |-> ucn, used_product_names |-> upn]

load_progress_unguarded(pf, ucn, upn) ==
    IF pf.state # "missing"
      THEN [companies |-> pf.companies, current_index |-> pf.current_index,
            used_company_names |-> ucn \cup pf.used_company_names,
            used_product_names |-> upn \cup pf.used_product_names]
      ELSE [companies |-> <<>>, current_index |-> 0,
            used_company_names |-> ucn, used_product_names |-> upn]

\* generate_data.py:56-70: <<companies, current_index, the two registry sets>>
load_progress(pf, ucn, upn) ==
    IF pf.state = "ok"
      THEN [companies |-> pf.companies, current_index |-> pf.current_index,
            used_company_names |-> ucn \cup pf.used_company_names,
            used_product_names |-> upn \cup pf.used_product_names]
      ELSE [companies |-> <<>>, current_index |-> 0,
            used_company_names |-> ucn, used_product_names |-> upn]

InitGen ==
    /\ RegistryEmpty
    /\ NamesQuiet
    /\ LoadQuiet
    /\ GenQuiet
    /\ CrudQuiet
    /\ PageQuiet

\* generate_data.py:249-256 and 203-205: the script starts with empty
\* registries (lines 39-40) and loads the checkpoint.
StartRun ==
    /\ gpc = "stopped"
    /\ runs < MaxRuns
    /\ runs' = runs + 1
    /\ LET p == load_progress(progress_file, {}, {})
       IN  /\ used_company_names' = p.used_company_names
           /\ used_product_names' = p.used_product_names
           /\ all_companies' = p.companies
           /\ i' = p.current_index
           /\ gpc' = IF p.companies # <<>> THEN "prompt" ELSE "loop"
    /\ attempt' = 0
    /\ saved' = FALSE
    /\ last_return' = NoReturn
    /\ run' = IF progress_file.state = "ok"
                THEN [resumed |-> TRUE,
                      start_index |-> progress_file.current_index,
                      kept |-> Len(progress_file.companies),
                      after_failure |->
                          /\ output_file.exists
                          /\ output_file.companies = progress_file.companies
                          /\ Len(progress_file.companies) < progress_file.current_index,
                      clean |-> TRUE, slots |-> 0, declined |-> FALSE,
                      ended |-> "none"]
                ELSE NoRun
    /\ UNCHANGED <<progress_file, output_file, num_products,
                   namesVars, loadVars,
                   crudVars, pageVars>>

AnswerPromptKeepsRegistry ==
    /\ gpc = "prompt"
    /\ \E yes \in BOOLEAN :
         IF yes
           THEN UNCHANGED <<progress_file, output_file, all_companies, i,
                            registryVars, run>>
           ELSE /\ output_file' = NoOutputFile
                /\ run' = [NoRun EXCEPT !.declined = TRUE]
                /\ progress_file' = NoProgressFile
                /\ all_companies' = <<>>
                /\ i' = 0
                /\ UNCHANGED registryVars
    /\ gpc' = "loop"
    /\ UNCHANGED <<attempt, num_products, last_return, saved, runs, namesVars, loadVars,
                   crudVars, pageVars>>

\* generate_data.py:205-215: "Continue? (y/n)"
AnswerPrompt ==
    /\ gpc = "prompt"
    /\ \E yes \in BOOLEAN :
         IF yes
           THEN UNCHANGED <<progress_file, output_file, all_companies, i,
                            registryVars, run>>
           ELSE /\ output_file' = NoOutputFile
                /\ run' = [NoRun EXCEPT !.declined = TRUE]
                /\ progress_file' = NoProgressFile
                /\ all_companies' = <<>>
                /\ i' = 0
                /\ used_company_names' = {}
                /\ used_product_names' = {}
    /\ gpc' = "loop"
    /\ UNCHANGED <<attempt, num_products, last_return, saved, runs, namesVars, loadVars,
                   crudVars, pageVars>>

\* generate_data.py:221-226 and 95: the next slot; the product count is
\* chosen.
BeginCompany ==
    /\ gpc = "loop"
    /\ i < TOTAL_COMPANIES
    /\ \E np \in {3, 4} : num_products' = np
    /\ attempt' = 0
    /\ gpc' = "attempt"
    /\ run' = [run EXCEPT !.slots = @ + 1]
    /\ UNCHANGED <<progress_file, output_file, all_companies, i, last_return,
                   saved, runs, registryVars, namesVars,
                   loadVars,
                   crudVars, pageVars>>

AttemptHaltsOnFailure ==
    /\ gpc = "attempt"
    /\ attempt < Attempts
    /\ \E payload \in Payloads :
         LET r == AttemptResult(payload, num_products, attempt)
             company == [name |-> payload.name, products |-> payload.products]
         IN  IF r = "retry"
               THEN /\ attempt' = attempt + 1
                    /\ run' = [run EXCEPT !.clean = FALSE]
                    /\ UNCHANGED <<gpc, progress_file, all_companies, i,
                                   last_return, saved, registryVars>>
             ELSE IF r = "return"
               THEN /\ used_company_names' = register_company(payload.name)
                    /\ used_product_names' = register_products(payload.products)
                    /\ all_companies' = Append(all_companies, company)
                    /\ progress_file' =
                         save_progress(all_companies', i + 1,
                                       used_company_names', used_product_names')
                    /\ last_return' =
                         [returned |-> TRUE, name |-> payload.name,
                          products |-> payload.products,
                          duplicates |-> DuplicateProducts(payload.products)]
                    /\ i' = i + 1
                    /\ gpc' = "loop"
                    /\ saved' = TRUE
                    /\ attempt' = attempt
                    /\ run' = run
             ELSE /\ gpc' = "stopped"
                  /\ run' = [run EXCEPT !.clean = FALSE, !.ended = "failed"]
                  /\ UNCHANGED <<progress_file, i, saved, attempt,
                                 all_companies, last_return, registryVars>>
    /\ UNCHANGED <<output_file, num_products, runs, namesVars, loadVars,
                   crudVars, pageVars>>

\* generate_data.py:142-196 and 225-237: one API call and what follows it.
Attempt ==
    /\ gpc = "attempt"
    /\ attempt < Attempts
    /\ \E payload \in Payloads :
         LET r == AttemptResult(payload, num_products, attempt)
             company == [name |-> payload.name, products |-> payload.products]
         IN  IF r = "retry"
               THEN /\ attempt' = attempt + 1
                    /\ run' = [run EXCEPT !.clean = FALSE]
                    /\ UNCHANGED <<gpc, progress_file, all_companies, i,
                                   last_return, saved, registryVars>>
             ELSE IF r = "return"
               THEN /\ used_company_names' = register_company(payload.name)
                    /\ used_product_names' = register_products(payload.products)
                    /\ all_companies' = Append(all_companies, company)
                    /\ progress_file' =
                         save_progress(all_companies', i + 1,
                                       used_company_names', used_product_names')
                    /\ last_return' =
                         [returned |-> TRUE, name |-> payload.name,
                          products |-> payload.products,
                          duplicates |-> DuplicateProducts(payload.products)]
                    /\ i' = i + 1
                    /\ gpc' = "loop"
                    /\ saved' = TRUE
                    /\ attempt' = attempt
                    /\ run' = run
             ELSE /\ progress_file' =
                       save_progress(all_companies, i,
                                     used_company_names, used_product_names)
                  /\ i' = i + 1
                  /\ gpc' = "loop"
                  /\ saved' = TRUE
                  /\ run' = [run EXCEPT !.clean = FALSE]
                  /\ UNCHANGED <<attempt, all_companies, last_return,
                                 registryVars>>
    /\ UNCHANGED <<output_file, num_products, runs, namesVars, loadVars,
                   crudVars, pageVars>>

FinishRemovesCheckpoint ==
    /\ gpc = "loop"
    /\ i >= TOTAL_COMPANIES
    /\ output_file' = [exists |-> TRUE, companies |-> all_companies]
    /\ progress_file' = NoProgressFile
    /\ gpc' = "stopped"
    /\ run' = [run EXCEPT !.ended = "finished"]
    /\ UNCHANGED <<all_companies, i, attempt, num_products, last_return, saved,
                   runs, registryVars, namesVars, loadVars,
                   crudVars, pageVars>>

\* generate_data.py:239-247: the final save.
Finish ==
    /\ gpc = "loop"
    /\ i >= TOTAL_COMPANIES
    /\ output_file' = [exists |-> TRUE, companies |-> all_companies]
    /\ progress_file' =
         IF Len(all_companies) = TOTAL_COMPANIES /\ progress_file.state # "missing"
           THEN NoProgressFile
           ELSE progress_file
    /\ gpc' = "stopped"
    /\ run' = [run EXCEPT !.ended = "finished"]
    /\ UNCHANGED <<all_companies, i, attempt, num_products, last_return, saved,
                   runs, registryVars, namesVars, loadVars,
                   crudVars, pageVars>>

\* generate_data.py:257-258: KeyboardInterrupt ends the run where it is; one
\* that arrives while save_progress is writing leaves a truncated checkpoint.
Interrupt ==
    /\ gpc # "stopped"
    /\ \E torn \in BOOLEAN :
         /\ torn => (saved /\ gpc = "loop")
         /\ progress_file' =
              IF torn THEN [progress_file EXCEPT !.state = "corrupt"]
                      ELSE progress_file
    /\ gpc' = "stopped"
    \* the process is gone, and its memory with it
    /\ all_companies' = <<>>
    /\ used_company_names' = {}
    /\ used_product_names' = {}
    /\ i' = 0
    /\ attempt' = 0
    /\ last_return' = NoReturn
    /\ run' = [NoRun EXCEPT !.ended = "interrupted"]
    /\ UNCHANGED <<output_file, num_products, saved, runs,
                   namesVars, loadVars,
                   crudVars, pageVars>>

NextGen ==
    StartRun \/ AnswerPrompt \/ BeginCompany \/ Attempt \/ Finish \/ Interrupt

SpecGen == InitGen /\ [][NextGen]_vars

\* The generator when the API never gives an acceptable answer for slot
\* FailingSlot: every call of generate_company_data for that slot ends in a
\* retry or in the exception of generate_data.py:193-195.
AttemptAtFailingSlot ==
    /\ Attempt
    /\ i = FailingSlot => all_companies' = all_companies

NextGenFailingSlot ==
    \/ StartRun
    \/ AnswerPrompt
    \/ BeginCompany
    \/ AttemptAtFailingSlot
    \/ Finish
    \/ Interrupt

SpecGenFailingSlot == InitGen /\ [][NextGenFailingSlot]_vars

(***************************************************************************)
(* Claims about the generator (checked under SpecGen).                     *)
(***************************************************************************)
\* C7 (as stated): no record returned by generate_company_data contains a
\* product name that is_duplicate_product judged a duplicate when it was
\* checked.
C7_NoDuplicateProductReturned ==
    last_return.returned => last_return.duplicates = {}

\* The <<company position, product position>> pairs of a company list.
ProductPlaces(companies) ==
    UNION {{<<c, n>> : n \in 1..Len(companies[c].products)} : c \in 1..Len(companies)}

\* C8 (as stated): the lowercase-trimmed product names of the accumulated
\* company list, of the checkpoint and of the output file are pairwise
\* distinct, across companies and within one company.
C8_ProductNamesDistinct ==
    \A companies \in {all_companies, progress_file.companies, output_file.companies} :
        \A x, y \in ProductPlaces(companies) :
            x # y => strip(lower(companies[x[1]].products[x[2]]))
                        # strip(lower(companies[y[1]].products[y[2]]))

\* C12: every record generate_company_data returns has exactly num_products
\* products, where num_products is 3 or 4, is chosen before the first API
\* call of the slot and stays the same over the retries; a payload with
\* another count is never accepted.
C12_ProductCountFixed ==
    [][gpc = "attempt" =>
          /\ num_products \in {3, 4}
          /\ num_products' = num_products
          /\ Len(all_companies') > Len(all_companies) =>
                /\ Len(all_companies') = Len(all_companies) + 1
                /\ Len(all_companies'[Len(all_companies')].products) = num_products
                /\ last_return'.returned
                /\ Len(last_return'.products) = num_products]_vars

\* A record of 4 products returned after an earlier answer was refused.
C12_Witness ==
    /\ last_return.returned
    /\ Len(last_return.products) = 4
    /\ num_products = 4
    /\ attempt > 0
    /\ gpc = "loop"

\* C13: a run resumed from a checkpoint with current_index = k and accepted
\* companies L starts at slot k with L as its accumulated list, makes no
\* generation call for a slot below k, and keeps L unchanged at the front of
\* the accumulated list.
C13_ResumeSkipsDoneSlots ==
    [][/\ (gpc = "stopped" /\ gpc' # "stopped" /\ progress_file.state = "ok") =>
            /\ i' = progress_file.current_index
            /\ all_companies' = progress_file.companies
            /\ run'.resumed
       /\ (run'.resumed /\ gpc' \in {"loop", "attempt"}) =>
            /\ i' >= run'.start_index
            /\ Len(all_companies') >= run'.kept
       /\ (run'.resumed /\ gpc # "stopped" /\ gpc' \in {"loop", "attempt"}) =>
            SubSeq(all_companies', 1, Len(all_companies)) = all_companies]_vars

\* A run resumed at slot 1 with one company kept has gone on to slot 2 and
\* holds two companies.
C13_Witness ==
    /\ run.resumed
    /\ run.start_index = 1
    /\ run.kept = 1
    /\ gpc = "attempt"
    /\ i = 2
    /\ Len(all_companies) = 2

\* C14 (as stated, with the target and the failing slot scaled from 5 and 2
\* to TOTAL_COMPANIES and FailingSlot): when slot FailingSlot fails on every
\* attempt in every run, then across any number of resumes the checkpoint's
\* current_index never exceeds FailingSlot and the output file never holds
\* TOTAL_COMPANIES companies.
C14_FailingSlotHoldsCheckpoint ==
    /\ progress_file.state = "ok" => progress_file.current_index <= FailingSlot
    /\ Len(output_file.companies) < TOTAL_COMPANIES

\* C15 (as stated): when a slot failed and the run ended with fewer than
\* TOTAL_COMPANIES companies, a resumed run in which every API call returns
\* a valid record that is no duplicate attempts the failed slot again: it
\* ends with TOTAL_COMPANIES accumulated companies and the checkpoint
\* deleted.
C15_FailedSlotRetriedOnResume ==
    (/\ run.ended = "finished"
     /\ run.resumed
     /\ run.after_failure
     /\ run.clean)
        => /\ Len(all_companies) = TOTAL_COMPANIES
           /\ progress_file.state = "missing"

\* C16: when a generation run ends, the output file holds the full
\* accumulated list, whether or not TOTAL_COMPANIES was reached; the
\* checkpoint file is gone if and only if the accumulated count equals
\* TOTAL_COMPANIES, and otherwise the checkpoint of the run is in place.
C16_FinalSave ==
    (gpc = "stopped" /\ run.ended = "finished")
        => /\ output_file = [exists |-> TRUE, companies |-> all_companies]
           /\ progress_file.state = "missing"
                <=> Len(all_companies) = TOTAL_COMPANIES
           /\ Len(all_companies) # TOTAL_COMPANIES =>
                /\ progress_file.state = "ok"
                /\ progress_file.companies = all_companies

\* A run that ended short of the target, and a resumed run that ended with
\* the target reached.
C16_Witness ==
    /\ gpc = "stopped"
    /\ run.ended = "finished"
    /\ Len(all_companies) = 2
    /\ output_file.companies = all_companies
    /\ progress_file.state = "ok"

C16_WitnessComplete ==
    /\ gpc = "stopped"
    /\ run.ended = "finished"
    /\ Len(all_companies) = TOTAL_COMPANIES
    /\ output_file.companies = all_companies
    /\ progress_file.state = "missing"
    /\ run.resumed

\* C17: load_progress does not raise.  When the checkpoint file is missing or
\* cannot be read or parsed, the run goes on with no companies and index 0;
\* when it is missing, the two registry sets are as they were (empty, as the
\* module creates them).
C17_LoadProgressFallsBack ==
    [][(gpc = "stopped" /\ gpc' # "stopped") =>
          /\ progress_file.state # "ok" =>
                /\ all_companies' = <<>>
                /\ i' = 0
                /\ gpc' = "loop"
          /\ progress_file.state = "missing" =>
                /\ used_company_names' = {}
                /\ used_product_names' = {}]_vars

\* A second run has started over a truncated checkpoint that held a company.
C17_Witness ==
    /\ runs = 2
    /\ gpc = "loop"
    /\ ~saved
    /\ progress_file.state = "corrupt"
    /\ progress_file.companies # <<>>
    /\ i = 0
    /\ all_companies = <<>>

(***************************************************************************)
(* SpecApi: the CRUD endpoints of main.py:200-447 together with POST       *)
(* /load-data.  The requests are served one at a time; a CRUD handler is   *)
(* one step (its queries, its commit or rollback, its answer).             *)
(***************************************************************************)
\* The answer of a handler that returns.
Answer(code, what) ==
    [status |-> code, body |-> what, loaded |-> 0, skipped |-> 0,
     errors |-> <<>>, errors_none |-> TRUE]

\* The files SpecApi starts from: the one entry "Acme", with any fault.
ApiFiles ==
    {f \in Files : /\ f.state = "ok"
                   /\ Len(f.companies) = 1
                   /\ f.companies[1].name = "Acme"}

CompanyIds(st) == {c.id : c \in st.companies}

ProductIds(st) == {p.id : p \in st.products}

\* A product id no row has.
NoProductId == <<NoId, NoId>>

\* The Product row POST /products stores; its uuid4 is <<NoId, n>>, which no
\* Product of /load-data has.
NewProductRow(n, cid) == [id |-> <<NoId, n>>, company_id |-> cid]

\* db.query(Company).filter(Company.id == company_id).first() in a new
\* Session: found or not.
CompanyExists(st, company_id) == company_id \in CompanyIds(st)

\* db.delete(company) with the ORM cascade left out.
DeleteCompanyOnly(st, company_id) ==
    [companies |-> {c \in st.companies : c.id # company_id},
     products  |-> st.products]

\* db.delete(company) with a cascade that takes every Product.
DeleteAllProducts(st, company_id) ==
    [companies |-> {c \in st.companies : c.id # company_id},
     products  |-> {}]

\* main.py:288-289 with models.py:22: db.delete(company) and commit; the
\* relationship's cascade="all, delete-orphan" deletes company.products.
DeleteCascade(st, company_id) ==
    [companies |-> {c \in st.companies : c.id # company_id},
     products  |-> {q \in st.products : q.company_id # company_id}]

\* The store with the Company row company_id renamed.
Renamed(st, company_id, name) ==
    [companies |-> {IF c.id = company_id THEN CompanyRow(c.id, name) ELSE c
                      : c \in st.companies},
     products  |-> st.products]

\* models.py:11, unique=True: the INSERT or UPDATE that gives the row
\* company_id a name another row has raises IntegrityError.
UniqueViolation(st, company_id, name) ==
    \E c \in st.companies : c.name = name /\ c.id # company_id

\* What every CRUD request does apart from its own handler: it runs when no
\* /load-data request is running, in a Session of its own, and the locals of
\* the request before it are gone.
CrudRequest(op, id) ==
    /\ lpc = "idle"
    /\ requests + calls < MaxRequests
    /\ requests' = requests + 1
    /\ request' = [op |-> op, id |-> id]
    /\ pre' = store
    /\ k' = 0
    /\ loaded_count' = 0
    /\ skipped_count' = 0
    /\ errors' = <<>>
    /\ trace' = <<>>
    /\ raised' = {}
    /\ outcome' = "none"
    /\ UNCHANGED <<file, autoflush, session, lpc, prev, calls>>
    /\ UNCHANGED <<registryVars, namesVars, genVars, pageVars>>

InitApi ==
    /\ InitLoad
    /\ file \in ApiFiles

\* POST /load-data begins, as one of the MaxRequests requests.
ApiLoadBegin ==
    /\ requests + calls < MaxRequests
    /\ LoadBegin

\* POST /companies, main.py:200-225
create_company ==
    \E name \in CompanyNames, dbFails \in BOOLEAN :
        /\ CrudRequest("create_company", NoId)
        /\ IF ExistingCompany(store, EmptySession, name)
             THEN /\ response' = ErrorResponse(400, "already exists")
                  /\ UNCHANGED <<store, nextId>>
           ELSE IF dbFails \/ UniqueViolation(store, nextId, name)
             THEN /\ response' = ErrorResponse(500, "Error creating company")
                  /\ UNCHANGED <<store, nextId>>
           ELSE /\ store' = [store EXCEPT !.companies =
                                @ \cup {CompanyRow(nextId, name)}]
                /\ nextId' = nextId + 1
                /\ response' = Answer(201, "company")

\* PUT /companies/{company_id}, main.py:227-268.  name: the name of the
\* update, "" when the update gives none.
update_company ==
    \E company_id \in CompanyIds(store) \cup {NoId},
       name \in CompanyNames \cup {""}, dbFails \in BOOLEAN :
        /\ CrudRequest("update_company", company_id)
        /\ nextId' = nextId
        /\ IF ~CompanyExists(store, company_id)
             THEN /\ response' = ErrorResponse(404, "not found")
                  /\ store' = store
           ELSE IF /\ name # ""
                   /\ CompanyRow(company_id, name) \notin store.companies
                   /\ ExistingCompany(store, EmptySession, name)
             THEN /\ response' = ErrorResponse(400, "already exists")
                  /\ store' = store
           ELSE IF dbFails \/ (name # "" /\ UniqueViolation(store, company_id, name))
             THEN /\ response' = ErrorResponse(500, "Error updating company")
                  /\ store' = store
           ELSE /\ store' = IF name = "" THEN store
                                          ELSE Renamed(store, company_id, name)
                /\ response' = Answer(200, "company")

\* DELETE /companies/{company_id}, main.py:270-300
delete_company ==
    \E company_id \in CompanyIds(store) \cup {NoId}, dbFails \in BOOLEAN :
        /\ CrudRequest("delete_company", company_id)
        /\ nextId' = nextId
        /\ IF ~CompanyExists(store, company_id)
             THEN /\ response' = ErrorResponse(404, "not found")
                  /\ store' = store
           ELSE IF dbFails
             THEN /\ response' = ErrorResponse(500, "Error deleting company")
                  /\ store' = store
           ELSE /\ store' = DeleteCascade(store, company_id)
                /\ response' = Answer(200, "deleted")

\* POST /products, main.py:359-384
create_product ==
    \E company_id \in CompanyIds(store) \cup {NoId}, dbFails \in BOOLEAN :
        /\ CrudRequest("create_product", company_id)
        /\ IF ~CompanyExists(store, company_id)
             THEN /\ response' = ErrorResponse(404, "not found")
                  /\ UNCHANGED <<store, nextId>>
           ELSE IF dbFails
             THEN /\ response' = ErrorResponse(500, "Error creating product")
                  /\ UNCHANGED <<store, nextId>>
           ELSE /\ store' = [store EXCEPT !.products =
                                @ \cup {NewProductRow(nextId, company_id)}]
                /\ nextId' = nextId + 1
                /\ response' = Answer(201, "product")

\* PUT /products/{product_id}, main.py:386-418: ProductUpdate has no
\* company_id, so the row keeps its id and its company.
update_product ==
    \E product_id \in ProductIds(store) \cup {NoProductId}, dbFails \in BOOLEAN :
        /\ CrudRequest("update_product", product_id)
        /\ UNCHANGED <<store, nextId>>
        /\ response' =
             IF product_id \notin ProductIds(store)
               THEN ErrorResponse(404, "not found")
             ELSE IF dbFails THEN ErrorResponse(500, "Error updating product")
             ELSE Answer(200, "product")

\* DELETE /products/{product_id}, main.py:420-447
delete_product ==
    \E product_id \in ProductIds(store) \cup {NoProductId}, dbFails \in BOOLEAN :
        /\ CrudRequest("delete_product", product_id)
        /\ nextId' = nextId
        /\ IF product_id \notin ProductIds(store)
             THEN /\ response' = ErrorResponse(404, "not found")
                  /\ store' = store
           ELSE IF dbFails
             THEN /\ response' = ErrorResponse(500, "Error deleting product")
                  /\ store' = store
           ELSE /\ store' = [store EXCEPT !.products =
                                {q \in @ : q.id # product_id}]
                /\ response' = Answer(200, "deleted")

NextApi ==
    \/ ApiLoadBegin
    \/ LoadCompany
    \/ LoadCommit
    \/ create_company
    \/ update_company
    \/ delete_company
    \/ create_product
    \/ update_product
    \/ delete_product

SpecApi == InitApi /\ [][NextApi]_vars

(***************************************************************************)
(* Claims about the CRUD endpoints (checked under SpecApi).                *)
(***************************************************************************)
\* The last request was a DELETE /companies/{id} that answered 200.
CompanyDeleted ==
    /\ lpc = "idle"
    /\ request.op = "delete_company"
    /\ response = Answer(200, "deleted")

\* C18: DELETE /companies/{id} removes the Company row id and every Product
\* whose company_id is id, and leaves every other Company and Product row as
\* it was.
C18_DeleteCompanyCascades ==
    CompanyDeleted =>
        /\ request.id \in CompanyIds(pre)
        /\ request.id \notin CompanyIds(store)
        /\ \A q \in store.products : q.company_id # request.id
        /\ \A c \in pre.companies : c.id # request.id => c \in store.companies
        /\ \A q \in pre.products : q.company_id # request.id => q \in store.products
        /\ store.companies \subseteq pre.companies
        /\ store.products \subseteq pre.products

\* A company with products was deleted while another company with a product
\* stayed.
C18_Witness ==
    /\ CompanyDeleted
    /\ \E q \in pre.products : q.company_id = request.id
    /\ store.companies # {}
    /\ store.products # {}

\* C19: whatever requests were served, no two Company rows have the same
\* name and every Product row's company_id is the id of a Company row.
C19_NamesUniqueAndProductsOwned ==
    /\ \A c, d \in store.companies : c.name = d.name => c = d
    /\ \A q \in store.products : q.company_id \in CompanyIds(store)

\* After a load, two companies and a product are stored and a rename to the
\* other company's name was refused.
C19_Witness ==
    /\ lpc = "idle"
    /\ calls >= 1
    /\ request.op = "update_company"
    /\ response.status = 400
    /\ Cardinality(store.companies) = 2
    /\ store.products # {}

(***************************************************************************)
(* SpecPage: GET /companies (main.py:148-182) and GET /products            *)
(* (main.py:304-341) over tables of 0..MaxRows rows.  page and per_page    *)
(* are at least 1 (Query(..., ge=1)).  A GET changes nothing that a later  *)
(* GET reads, so a behaviour makes one.                                    *)
(***************************************************************************)
Industries == {"FinTech", "EdTech"}

PricingModels == {"Free", "Subscription"}

\* The rows of a table of n rows, in the order the found returns them.
CompanyTable(n) ==
    [j \in 1..n |-> [id |-> j,
                     industry |-> IF j % 3 = 0 THEN "EdTech" ELSE "FinTech"]]

ProductTable(n) ==
    [j \in 1..n |-> [id |-> j,
                     company_id |-> 1 + (j % 2),
                     pricing_model |-> IF j % 3 = 0 THEN "Free" ELSE "Subscription"]]

\* total // per_page in the place of math.ceil(total / per_page).
TotalPagesFloor(total, per_page) == total \div per_page

\* math.ceil(total / per_page), main.py:169 and 328
TotalPages(total, per_page) ==
    IF total % per_page = 0 THEN total \div per_page
                            ELSE (total \div per_page) + 1

\* query.offset(n)
Offset(rows, n) ==
    IF n >= Len(rows) THEN <<>> ELSE SubSeq(rows, n + 1, Len(rows))

\* query.limit(n)
Limit(rows, n) ==
    IF n >= Len(rows) THEN rows ELSE SubSeq(rows, 1, n)

\* main.py:166-180 and 325-339: the count, the page arithmetic, the slice and
\* the answer.
Paginated(endpoint, filters, found, page, per_page) ==
    [endpoint |-> endpoint, filters |-> filters,
     total |-> Len(found), page |-> page, per_page |-> per_page,
     total_pages |-> TotalPages(Len(found), per_page),
     items |-> Limit(Offset(found, (page - 1) * per_page), per_page)]

InitPage ==
    /\ \E n \in 0..MaxRows :
         /\ companies_table = CompanyTable(n)
         /\ products_table = ProductTable(n)
    /\ listing = NoListing
    /\ RegistryEmpty
    /\ NamesQuiet
    /\ LoadQuiet
    /\ GenQuiet
    /\ CrudQuiet

\* GET /companies, main.py:148-182.  industry "" : no filter given.
get_companies ==
    /\ listing = NoListing
    /\ \E page \in 1..MaxPage, per_page \in 1..MaxPerPage,
          industry \in Industries \cup {""} :
         LET Kept(r) == r.industry = industry
             found == IF industry # "" THEN SelectSeq(companies_table, Kept)
                                       ELSE companies_table
         IN  listing' = Paginated("companies", <<industry>>, found, page, per_page)
    /\ UNCHANGED <<companies_table, products_table>>
    /\ UNCHANGED <<loadVars, registryVars, namesVars, genVars, crudVars>>

\* GET /products, main.py:304-341.  company_id NoId, pricing_model "" : no
\* filter given.
get_products ==
    /\ listing = NoListing
    /\ \E page \in 1..MaxPage, per_page \in 1..MaxPerPage,
          company_id \in {NoId, 1, 2}, pricing_model \in PricingModels \cup {""} :
         LET OfCompany(r) == r.company_id = company_id
             Priced(r) == r.pricing_model = pricing_model
             q1 == IF company_id # NoId THEN SelectSeq(products_table, OfCompany)
                                        ELSE products_table
             found == IF pricing_model # "" THEN SelectSeq(q1, Priced) ELSE q1
         IN  listing' = Paginated("products", <<company_id, pricing_model>>,
                                  found, page, per_page)
    /\ UNCHANGED <<companies_table, products_table>>
    /\ UNCHANGED <<loadVars, registryVars, namesVars, genVars, crudVars>>

NextPage == get_companies \/ get_products

SpecPage == InitPage /\ [][NextPage]_vars

(***************************************************************************)
(* Claims about pagination (checked under SpecPage).                       *)
(***************************************************************************)
\* The records that match the filters of the last request, in query order.
MatchingRecords ==
    IF listing.endpoint = "companies"
      THEN LET Match(r) == listing.filters[1] = "" \/ r.industry = listing.filters[1]
           IN  SelectSeq(companies_table, Match)
      ELSE LET Match(r) ==
                   /\ listing.filters[1] = NoId \/ r.company_id = listing.filters[1]
                   /\ listing.filters[2] = "" \/ r.pricing_model = listing.filters[2]
           IN  SelectSeq(products_table, Match)

\* C20: with page p >= 1 and per_page s >= 1 over T matching records, the
\* answer holds the records at the 1-based positions (p-1)*s+1 .. min(p*s, T)
\* of the query order (none when (p-1)*s >= T) and total_pages is the
\* ceiling of T/s; with p = 2, s = 10 and T = 25 these are the records 11 to
\* 20 and total_pages = 3.
C20_PageIsSlice ==
    listing.endpoint # "none" =>
        LET T == Len(MatchingRecords)
            p == listing.page
            s == listing.per_page
            first == (p - 1) * s
            last == IF p * s < T THEN p * s ELSE T
        IN  /\ p >= 1
            /\ s >= 1
            /\ listing.total = T
            /\ Len(listing.items) = IF first >= T THEN 0 ELSE last - first
            /\ \A j \in 1..Len(listing.items) :
                   listing.items[j] = MatchingRecords[first + j]
            /\ listing.total_pages * s >= T
            /\ (listing.total_pages - 1) * s < T
            /\ (p = 2 /\ s = 10 /\ T = 25) =>
                   /\ listing.total_pages = 3
                   /\ listing.items = SubSeq(MatchingRecords, 11, 20)

\* Page 2 of 25 companies, 10 to the page.
C20_Witness ==
    /\ listing.endpoint = "companies"
    /\ listing.page = 2
    /\ listing.per_page = 10
    /\ listing.total = 25
    /\ listing.total_pages = 3
    /\ Len(listing.items) = 10
    /\ listing.items[1].id = 11

\* C21: one invocation of generate_company_data makes at most Attempts API
\* calls and ends: it returns a record it accepted, or, when the last
\* attempt fails, raises to the caller; it never goes on to another call
\* after the last attempt and never comes back without a record.
C21_AtMostFiveCalls ==
    [][gpc = "attempt" =>
          /\ attempt < Attempts
          /\ gpc' = "attempt" =>
                /\ attempt' = attempt + 1
                /\ attempt' < Attempts
                /\ all_companies' = all_companies
          /\ gpc' = "loop" =>
                \/ /\ last_return'.returned
                   /\ all_companies' =
                        Append(all_companies, [name |-> last_return'.name,
                                               products |-> last_return'.products])
                \/ /\ attempt = LastAttempt
                   /\ all_companies' = all_companies]_vars

\* The first slot of a run has failed on its fifth call.
C21_Witness ==
    /\ gpc = "loop"
    /\ attempt = LastAttempt
    /\ i = 1
    /\ all_companies = <<>>
    /\ progress_file.state = "ok"
    /\ ~run.clean

\* The companies a later run reads from the checkpoint.
ReadableCompanies(pf) == IF pf.state = "ok" THEN pf.companies ELSE <<>>

\* The checkpoint after an iteration of the loop: after a successful
\* iteration i the accumulated list with the new company and current_index
\* i + 1, after a failed one the unchanged list and current_index i; at an
\* iteration boundary the checkpoint's list is the accumulated list.
CheckpointFollowsLoop ==
    /\ (gpc = "attempt" /\ gpc' = "loop") =>
          /\ progress_file'.state = "ok"
          /\ progress_file'.companies = all_companies'
          /\ \/ /\ Len(all_companies') = Len(all_companies) + 1
                /\ progress_file'.current_index = i + 1
             \/ /\ all_companies' = all_companies
                /\ progress_file'.current_index = i
    /\ (gpc' = "loop" /\ (saved' \/ run'.resumed)) =>
          /\ progress_file'.state = "ok"
          /\ progress_file'.companies = all_companies'

\* An interruption loses at most the company in flight: the checkpoint it
\* leaves reads back the accumulated list of the interrupted run, but for
\* its last company at most.
InterruptionKeepsAccepted ==
    (gpc # "stopped" /\ gpc' = "stopped" /\ run'.ended = "interrupted") =>
        LET kept == ReadableCompanies(progress_file')
        IN  /\ Len(kept) <= Len(all_companies)
            /\ Len(all_companies) <= Len(kept) + 1
            /\ kept = SubSeq(all_companies, 1, Len(kept))

\* C22 (as stated): the checkpoint is rewritten after every loop iteration
\* with the accumulated list and the index of the next slot (i + 1 after a
\* success, i after a failure), so that at every iteration boundary its
\* list is the accumulated list and an interruption loses at most the one
\* company in flight.
C22_CheckpointEveryIteration ==
    [][CheckpointFollowsLoop /\ InterruptionKeepsAccepted]_vars

\* The first slot of the running/last run.
FirstSlot == IF run.resumed THEN run.start_index ELSE 0

\* C23: a generation failure never ends the run: whether the call for slot
\* i returns or raises, the loop goes on with slot i + 1, so that in one run
\* every slot from the first to TOTAL_COMPANIES - 1 is attempted exactly
\* once, in order, and the run ends with the final write of the output
\* file.
C23_FailureDoesNotEndRun ==
    [][/\ (gpc = "attempt" /\ gpc' = "stopped") => run'.ended = "interrupted"
       /\ (gpc = "attempt" /\ gpc' = "loop") => i' = i + 1
       /\ gpc' = "attempt" => i' = FirstSlot' + run'.slots - 1
       /\ gpc' = "loop" => i' = FirstSlot' + run'.slots
       /\ (gpc' = "stopped" /\ run'.ended = "finished") =>
             /\ i' = TOTAL_COMPANIES
             /\ run'.slots = TOTAL_COMPANIES - FirstSlot'
             /\ output_file' = [exists |-> TRUE, companies |-> all_companies']]_vars

\* A run from slot 0 in which one slot failed ended with the final
\* write, after a call for every slot.
C23_Witness ==
    /\ gpc = "stopped"
    /\ run.ended = "finished"
    /\ ~run.resumed
    /\ run.slots = TOTAL_COMPANIES
    /\ Len(all_companies) = TOTAL_COMPANIES - 1
    /\ output_file.companies = all_companies
    /\ progress_file.state = "ok"
    /\ progress_file.current_index = TOTAL_COMPANIES

\* The registry keys of the names in a list of companies.
CompanyKeys(companies) ==
    {strip(lower(companies[n].name)) : n \in 1..Len(companies)}

ProductKeys(companies) ==
    UNION {{strip(lower(companies[n].products[j])) :
               j \in 1..Len(companies[n].products)} : n \in 1..Len(companies)}

\* The step in which the user declines to resume.
Declined == gpc = "prompt" /\ all_companies # <<>> /\ all_companies' = <<>>

\* Within a run the registries change only when a record is returned, and
\* then by the names of that record; a retry, a failed call and the final
\* write leave them alone; the only step that empties them is the refusal
\* to resume.  (An interruption ends the process, and the run with it.)
RegistriesOnlyGrow ==
    (gpc # "stopped" /\ run'.ended # "interrupted") =>
      /\ ~Declined =>
            /\ used_company_names \subseteq used_company_names'
            /\ used_product_names \subseteq used_product_names'
      /\ Declined => used_company_names' = {} /\ used_product_names' = {}
      /\ (~Declined /\ registryVars' # registryVars) =>
            /\ gpc = "attempt"
            /\ gpc' = "loop"
            /\ last_return'.returned
            /\ all_companies' =
                  Append(all_companies, [name |-> last_return'.name,
                                         products |-> last_return'.products])
            /\ used_company_names' =
                  used_company_names \cup {strip(lower(last_return'.name))}
            /\ used_product_names' =
                  used_product_names \cup
                    {strip(lower(last_return'.products[j])) :
                        j \in 1..Len(last_return'.products)}
      /\ (gpc = "attempt" /\ all_companies' = all_companies) =>
            registryVars' = registryVars

\* The start of a run on a readable checkpoint leaves in the registries
\* every name the checkpoint stores: its two name lists and the names of
\* its companies and products.
RegistriesLoadedOnResume ==
    (gpc = "stopped" /\ gpc' # "stopped" /\ progress_file.state = "ok") =>
      /\ progress_file.used_company_names \subseteq used_company_names'
      /\ progress_file.used_product_names \subseteq used_product_names'
      /\ CompanyKeys(progress_file.companies) \subseteq used_company_names'
      /\ ProductKeys(progress_file.companies) \subseteq used_product_names'

\* C24: within a run the two registry sets only grow, and only by the names
\* of a record that generate_company_data returns; failed attempts and
\* failed calls leave them unchanged; they are emptied only when the user
\* declines to resume; after load_progress on resume they contain every
\* name stored in the checkpoint.
C24_RegistriesOnlyGrow ==
    [][RegistriesOnlyGrow /\ RegistriesLoadedOnResume]_vars

\* A resumed run started with the names of the checkpoint, went through a
\* failed attempt and then registered the names of a second company.
C24_Witness ==
    /\ run.resumed
    /\ run.kept = 1
    /\ ~run.clean
    /\ gpc = "loop"
    /\ last_return.returned
    /\ Len(all_companies) = 2
    /\ used_company_names = CompanyKeys(all_companies)
    /\ Cardinality(used_company_names) = 2
    /\ ProductKeys(all_companies) \subseteq used_product_names

\* The step in which the user answers the prompt.
PromptAnswered == gpc = "prompt" /\ gpc' = "loop"

\* C25: the prompt is shown exactly when the checkpoint read at the start
\* holds at least one company.  When the user declines, the output file and
\* the checkpoint file are removed and the run goes on from slot 0 with an
\* empty list and empty registries; when the user accepts, the list, the
\* cursor and the registries are those of the checkpoint and no file is
\* touched.
C25_DeclineResetsAcceptResumes ==
    [][/\ (gpc = "stopped" /\ gpc' # "stopped") =>
             (gpc' = "prompt" <=> /\ progress_file.state = "ok"
                                  /\ progress_file.companies # <<>>)
       /\ (PromptAnswered /\ run'.declined) =>
             /\ ~output_file'.exists
             /\ progress_file'.state = "missing"
             /\ all_companies' = <<>>
             /\ i' = 0
             /\ used_company_names' = {}
             /\ used_product_names' = {}
       /\ (PromptAnswered /\ ~run'.declined) =>
             /\ progress_file.state = "ok"
             /\ all_companies' = progress_file.companies
             /\ i' = progress_file.current_index
             /\ used_company_names' = progress_file.used_company_names
             /\ used_product_names' = progress_file.used_product_names
             /\ UNCHANGED <<progress_file, output_file>>
       /\ (run.declined /\ gpc = "loop" /\ gpc' = "attempt"
                        /\ run'.slots = 1) => i' = 0]_vars

\* The user declined, and the first call of the run is under way for slot 0
\* with nothing kept.
C25_Witness ==
    /\ run.declined
    /\ gpc = "attempt"
    /\ run.slots = 1
    /\ i = 0
    /\ all_companies = <<>>
    /\ used_company_names = {}
    /\ used_product_names = {}
    /\ ~output_file.exists
    /\ progress_file.state = "missing"

\* C26: every checkpoint that generate_all_data has written, in whatever
\* sequence of runs, resumes and restarts that began without a checkpoint
\* file, holds no more companies than its current_index, and a
\* current_index of at most TOTAL_COMPANIES; the list and the cursor of the
\* running loop, from which the next checkpoint is written, obey the same
\* bounds.
C26_CursorBoundsCheckpoint ==
    /\ progress_file.state = "ok" =>
          /\ Len(progress_file.companies) <= progress_file.current_index
          /\ progress_file.current_index <= TOTAL_COMPANIES
    /\ gpc \in {"loop", "attempt"} =>
          /\ Len(all_companies) <= i
          /\ i <= TOTAL_COMPANIES
    /\ gpc = "attempt" => i < TOTAL_COMPANIES

\* A resumed run has written a checkpoint for the last slot that holds
\* fewer companies than slots, one of them added in this run.
C26_Witness ==
    /\ run.resumed
    /\ saved
    /\ progress_file.state = "ok"
    /\ progress_file.current_index = TOTAL_COMPANIES
    /\ Len(progress_file.companies) < TOTAL_COMPANIES
    /\ Len(progress_file.companies) > run.kept
    /\ run.kept > 0

====
